---------------------------- MODULE Spec2Model ----------------------------
(***************************************************************************)
(* A model of trojan-rs: the TUN reader and main loop (wintun/mod.rs), the *)
(* TLS server's connection table (server/tls_server.rs), the UDP backend   *)
(* (server/udp_backend.rs) and the redirect-mode TCP listener              *)
(* (aproxy/tcp.rs).  Each subsystem has its own specification over its own *)
(* variables; the variables of the other subsystems stay at their initial  *)
(* values.                                                                 *)
(***************************************************************************)
EXTENDS Integers, Sequences, FiniteSets, TLC

VARIABLES
    \* ---- wintun/mod.rs: run and do_tun_read
    tun_pc,        \* position of run's loop: "read" (line 161), "stack" (162-166), "exit"
    tun_status,    \* how run ended: "running", or the error / panic that ended it
    session,       \* frames waiting in the TUN device's ring (session.try_receive)
    sockets,       \* the stack's socket set, in handle order
    queue,         \* the bounded channel sender -> receiver (inbound packet queue)
    udp_handles,   \* do_tun_read's first result, as held by run
    tcp_handles,   \* do_tun_read's second result, as held by run
    h_batch,       \* history: the ring as the last do_tun_read found it
    h_pre,         \* history: sockets and queue as the last do_tun_read found them
    \* ---- server/tls_server.rs: TlsServer
    tls_status,    \* "running", or "panicked" (accept's panic_any)
    next_id,       \* TlsServer.next_id
    conns,         \* TlsServer.conns: index -> connection
    now,           \* the clock (Instant::now)
    h_handed,      \* history: the indices next_index returned in the last accept
    h_reused,      \* history: those of them that were keys of conns when returned
    tls_op,        \* history: the last call on the server
    h_removed,     \* history: the list of the last check_timeout (destroyed, removed)
    h_accept,      \* history: what the last accept did with each stream, and its end
    h_event,       \* history: the token of the last do_conn_event, and whether
                   \* its connection reported destroyed() after conn.ready
    \* ---- aproxy/tcp.rs: run_tcp and the tasks it spawns
    acc_status,    \* run_tcp: "running", or the error it returned
    notified,      \* the addresses sent on sender (run_tcp is given one)
    flows,         \* the start_tcp_proxy tasks, in spawn order
    \* ---- server/udp_backend.rs: UdpBackend
    backends,      \* the UdpBackends, one per connection
    h_udp,         \* history: the last call on a backend and what it did
    \* ---- wintun/mod.rs: run's event loop (lines 140-203)
    loop_status,   \* "running", or "poll_err" (poll.poll(..)? returned Err)
    registry,      \* the objects registered with poll: index, channel, token
    h_poll,        \* history: poll_delay's result and the timeout of the last poll
    h_events,      \* history: the events of the last poll and their handlers
    instant,       \* the clock (std::time::Instant::now), in seconds
    last_tcp_check_time,
    last_udp_check_time,
    h_timers,      \* history: what lines 193-202 did in the last iteration
    \* ---- server/udp_backend.rs: one UdpBackend and the bytes that pass through it
    s_backend,     \* the UdpBackend
    s_in,          \* history: all bytes dispatched to it, in order
    s_out,         \* history: all datagrams it sent with send_to, in order
    s_clean,       \* history: no send error and no protocol violation so far
    s_blocked      \* history: the last do_send ended on WouldBlock

tunVars == <<tun_pc, tun_status, session, sockets, queue, udp_handles,
             tcp_handles, h_batch, h_pre>>

tlsVars == <<tls_status, next_id, conns, now, h_handed, h_reused, tls_op,
             h_removed, h_accept, h_event>>

proxyVars == <<acc_status, notified, flows>>

udpVars == <<backends, h_udp>>

pollVars == <<loop_status, registry, h_poll, h_events>>

timerVars == <<instant, last_tcp_check_time, last_udp_check_time, h_timers>>

loopVars == <<pollVars, timerVars>>

streamVars == <<s_backend, s_in, s_out, s_clean, s_blocked>>

vars == <<tunVars, tlsVars, proxyVars, udpVars, loopVars, streamVars>>

\* What each subsystem leaves alone: the variables of the others.
notTun == <<tlsVars, proxyVars, udpVars, loopVars, streamVars>>

notTls == <<tunVars, proxyVars, udpVars, loopVars, streamVars>>

notProxy == <<tunVars, tlsVars, udpVars, loopVars, streamVars>>

notUdp == <<tunVars, tlsVars, proxyVars, loopVars, streamVars>>

notPoll == <<tunVars, tlsVars, proxyVars, udpVars, timerVars, streamVars>>

notTimer == <<tunVars, tlsVars, proxyVars, udpVars, pollVars, streamVars>>

notStream == <<tunVars, tlsVars, proxyVars, udpVars, loopVars>>

(***************************************************************************)
(* Sequence helpers.                                                       *)
(***************************************************************************)
Take(s, n) == SubSeq(s, 1, IF n < Len(s) THEN n ELSE Len(s))

Drop(s, n) == SubSeq(s, n + 1, Len(s))

Range(s) == {s[i] : i \in 1..Len(s)}

\* The least index i of s with P-set membership s[i] \in S, or 0.
FirstIn(s, S) ==
    IF \E i \in 1..Len(s) : s[i] \in S
    THEN CHOOSE i \in 1..Len(s) : s[i] \in S /\ \A j \in 1..(i - 1) : s[j] \notin S
    ELSE 0

(***************************************************************************)
(* wintun/mod.rs                                                           *)
(***************************************************************************)

\* Bounds of the model.
MaxBatch == 2

MaxBurst == 3

MaxSockets == 2

\* OPTIONS.wintun_args().buffer_size: the capacity of the inbound queue.
buffer_size == 1

NoEndpoint == [addr |-> "none", port |-> 0]

Ep(a, p) == [addr |-> a, port |-> p]

\* Addresses: local peers "a" and "b", public destinations "d" and "e", and
\* "p", an address of the private set.
PrivateAddrs == {"p"}

\* is_private(dst_endpoint): the installed predicate of wintun/ip.rs.
is_private(ep) == ep.addr \in PrivateAddrs

\* A frame of the ring.  ip is what IpVersion::of_packet and new_checked make
\* of it ("v4", "v6", "unrecognized" version, "truncated" header, or
\* "recv_error" when try_receive itself fails); proto the L4 protocol; l4ok
\* whether UdpPacket/TcpPacket::new_checked accepts the payload.
Frame(ip, proto, l4ok, src, dst, syn, ack, fin, len) ==
    [ip |-> ip, proto |-> proto, l4ok |-> l4ok, src |-> src, dst |-> dst,
     syn |-> syn, ack |-> ack, fin |-> fin, len |-> len]

TcpSyn(src, dst) == Frame("v4", "tcp", TRUE, src, dst, TRUE, FALSE, FALSE, 0)

TcpData(src, dst) == Frame("v4", "tcp", TRUE, src, dst, FALSE, TRUE, FALSE, 1)

TcpSynAck(src, dst) == Frame("v4", "tcp", TRUE, src, dst, TRUE, TRUE, FALSE, 0)

TcpAck(src, dst) == Frame("v4", "tcp", TRUE, src, dst, FALSE, TRUE, FALSE, 0)

TcpFin(src, dst) == Frame("v4", "tcp", TRUE, src, dst, FALSE, TRUE, TRUE, 0)

\* A SYN that carries payload.
TcpSynData(src, dst) == Frame("v4", "tcp", TRUE, src, dst, TRUE, FALSE, FALSE, 1)

Udp(ip, src, dst) == Frame(ip, "udp", TRUE, src, dst, FALSE, FALSE, FALSE, 1)

Junk(ip, proto, l4ok) ==
    Frame(ip, proto, l4ok, NoEndpoint, NoEndpoint, FALSE, FALSE, FALSE, 0)

Frames ==
    {TcpSyn(Ep("a", 1111), Ep("d", 443)), TcpSyn(Ep("b", 2222), Ep("d", 443)),
     TcpData(Ep("a", 1111), Ep("d", 443)), TcpSynAck(Ep("a", 1111), Ep("d", 443)),
     TcpAck(Ep("a", 1111), Ep("d", 443)), TcpFin(Ep("a", 1111), Ep("d", 443)),
     TcpSyn(Ep("a", 1111), Ep("d", 0)), TcpSyn(Ep("a", 1111), Ep("p", 443)),
     TcpSynData(Ep("b", 2222), Ep("e", 80)),
     Udp("v4", Ep("a", 1111), Ep("d", 53)), Udp("v4", Ep("b", 2222), Ep("d", 53)),
     Udp("v6", Ep("a", 1111), Ep("e", 53)),
     Udp("v4", Ep("a", 1111), Ep("d", 0)), Udp("v4", Ep("a", 1111), Ep("p", 53)),
     Junk("v4", "other", TRUE), Junk("unrecognized", "other", TRUE),
     Junk("truncated", "other", TRUE), Junk("v4", "udp", FALSE),
     Junk("v6", "tcp", FALSE), Junk("recv_error", "other", TRUE)}

BurstFrames ==
    {TcpSyn(Ep("a", 1111), Ep("d", 443)), TcpData(Ep("a", 1111), Ep("d", 443)),
     Udp("v4", Ep("a", 1111), Ep("d", 53)), Udp("v4", Ep("b", 2222), Ep("d", 53)),
     Udp("v4", Ep("a", 1111), Ep("d", 0)), Udp("v4", Ep("a", 1111), Ep("p", 53)),
     Junk("v4", "other", TRUE), Junk("v6", "tcp", FALSE)}

\* A socket of the set.  kind "tcp": local is the listen endpoint, remote the
\* peer once the stack has accepted a SYN on it (NoEndpoint while listening).
\* kind "udp": local is the bound endpoint.  flow is history: the source
\* endpoint of the frame for which do_tun_read created the socket.
Socket(kind, local, remote, flow) ==
    [kind |-> kind, local |-> local, remote |-> remote, flow |-> flow]

\* Lines 219-244: the IP header.  "ok", or the way the frame ends the loop.
IpOutcome(f) ==
    CASE f.ip = "recv_error" -> "recv_error"          \* try_receive()? (214)
      [] f.ip = "unrecognized" -> "panic_parse"       \* of_packet(..).unwrap() (220)
      [] f.ip = "truncated" -> "panic_parse"          \* new_checked(..).unwrap() (222, 233)
      [] OTHER -> "ok"

\* Lines 245-260: the L4 header.  "skip" is the `_ => continue` of line 259.
L4Outcome(f) ==
    CASE f.proto = "other" -> "skip"
      [] ~f.l4ok -> "panic_parse"                     \* new_checked(..).unwrap() (247, 251)
      [] OTHER -> "ok"

\* Line 256: connect, for a TCP segment.
Connect(f) == f.syn /\ ~f.ack

\* A reader that notifies the flow manager of every segment.
NotifyAlways(f) == TRUE

\* Line 255: notify.
Notify(f) == IF f.proto = "udp" THEN TRUE ELSE (f.len > 0) \/ f.fin

\* A reader that lacks the check of lines 264-266.
SkipPrivateNever(dst) == FALSE

\* Lines 264-266: a private destination ends the iteration before anything is done.
SkipPrivate(dst) == is_private(dst)

\* Line 274: socket.listen(dst_endpoint) fails on an unaddressable endpoint (port 0).
ListenOk(ep) == ep.port # 0

\* Line 308: socket.bind(dst_endpoint) fails on an unaddressable endpoint (port 0).
BindOk(ep) == ep.port # 0

\* Lines 277-285: the first TCP socket whose local endpoint is dst and whose
\* remote endpoint is src; 0 when there is none.
FindTcp(socks, src, dst) ==
    FirstIn(socks, {s \in Range(socks) :
                      s.kind = "tcp" /\ s.local = dst /\ s.remote = src})

\* Lines 292-295: the first UDP socket bound to dst; 0 when there is none.
FindUdp(socks, dst) ==
    FirstIn(socks, {s \in Range(socks) : s.kind = "udp" /\ s.local = dst})

\* An unbounded channel in place of bounded(buffer_size).
TrySendUnbounded(q, f) == Append(q, f)

\* Lines 316-318: sender.try_send on the bounded channel; a full channel drops
\* the packet (a warning is logged) and the loop goes on.
TrySend(q, f) == IF Len(q) < buffer_size THEN Append(q, f) ELSE q

\* Lines 268-290: a TCP segment to a non-private destination.
TcpStep(st, f) ==
    IF Connect(f)
    THEN IF ~ListenOk(f.dst)
         THEN [st EXCEPT !.status = "panic_listen"]   \* listen(..).unwrap() (274)
         ELSE LET socks == Append(st.sockets,
                                  Socket("tcp", f.dst, NoEndpoint, f.src))
              IN [st EXCEPT !.sockets = socks,
                            !.tcp_handles = IF Notify(f)
                                            THEN Append(@, Len(socks)) ELSE @,
                            !.queue = TrySend(@, f)]
    ELSE LET h == FindTcp(st.sockets, f.src, f.dst)
         IN [st EXCEPT !.tcp_handles = IF h # 0 /\ Notify(f)
                                       THEN Append(@, h) ELSE @,
                       !.queue = TrySend(@, f)]

\* Lines 291-314: a UDP datagram to a non-private destination.
UdpStep(st, f) ==
    LET h == FindUdp(st.sockets, f.dst)
    IN IF h # 0
       THEN [st EXCEPT !.udp_handles = Append(@, h), !.queue = TrySend(@, f)]
       ELSE IF ~BindOk(f.dst)
            THEN [st EXCEPT !.status = "bind_error"]  \* socket.bind(..)? (308)
            ELSE LET socks == Append(st.sockets,
                                     Socket("udp", f.dst, NoEndpoint, f.src))
                 IN [st EXCEPT !.sockets = socks,
                               !.udp_handles = Append(@, Len(socks)),
                               !.queue = TrySend(@, f)]

\* Lines 214-318: one iteration of do_tun_read's loop on frame f.
FrameStep(st, f) ==
    LET s1 == [st EXCEPT !.consumed = @ + 1]
    IN CASE IpOutcome(f) # "ok" -> [s1 EXCEPT !.status = IpOutcome(f)]
         [] IpOutcome(f) = "ok" /\ L4Outcome(f) = "skip" -> s1
         [] IpOutcome(f) = "ok" /\ L4Outcome(f) = "panic_parse" ->
                [s1 EXCEPT !.status = "panic_parse"]
         [] OTHER -> IF SkipPrivate(f.dst) THEN s1
                     ELSE IF f.proto = "tcp" THEN TcpStep(s1, f)
                     ELSE UdpStep(s1, f)

RECURSIVE ReadLoop(_, _)
\* Lines 213-319: the loop runs until try_receive returns None, or until a
\* frame ends the function (an Err returned by `?`, or a panic).
ReadLoop(st, frames) ==
    IF frames = <<>> \/ st.status # "running" THEN st
    ELSE ReadLoop(FrameStep(st, Head(frames)), Tail(frames))

\* Lines 206-322: do_tun_read on the ring `frames`, from sockets socks and queue q.
do_tun_read(socks, q, frames) ==
    ReadLoop([sockets |-> socks, queue |-> q, udp_handles |-> <<>>,
              tcp_handles |-> <<>>, status |-> "running", consumed |-> 0],
             frames)

\* The stack's ingress for one packet of the inbound queue (smoltcp, reached
\* from interface.poll at line 162): a SYN goes to the first TCP socket that
\* accepts it, one already connected to its source or one still listening on
\* its destination; a listening socket that takes it gets the remote endpoint.
StackIngress(socks, f) ==
    IF f.proto = "tcp" /\ f.syn /\ ~f.ack
    THEN LET h == FirstIn(socks, {s \in Range(socks) :
                             s.kind = "tcp" /\ s.local = f.dst
                             /\ s.remote \in {NoEndpoint, f.src}})
         IN IF h # 0 /\ socks[h].remote = NoEndpoint
            THEN [socks EXCEPT ![h].remote = f.src]
            ELSE socks
    ELSE socks

RECURSIVE StackIngressAll(_, _)
StackIngressAll(socks, packets) ==
    IF packets = <<>> THEN socks
    ELSE StackIngressAll(StackIngress(socks, Head(packets)), Tail(packets))

TunInit ==
    /\ tun_pc = "read"
    /\ tun_status = "running"
    /\ session = <<>>
    /\ sockets = <<>>
    /\ queue = <<>>
    /\ udp_handles = <<>>
    /\ tcp_handles = <<>>
    /\ h_batch = <<>>
    /\ h_pre = [sockets |-> <<>>, queue |-> <<>>]

\* f may make do_tun_read add a socket: a SYN without ACK, or a UDP datagram.
MayAddSocket(f) ==
    f.ip \in {"v4", "v6"} /\ f.l4ok /\ (f.proto = "udp" \/ (f.proto = "tcp" /\ Connect(f)))

\* The operating system puts a frame on the device's ring, which holds at most
\* max frames.  The model stops taking frames that may add a socket once
\* MaxSockets could be exceeded.
TunDeliver(f, max) ==
    /\ tun_pc = "read"
    /\ Len(session) < max
    /\ MayAddSocket(f) =>
           Len(sockets) + Len(SelectSeq(session, MayAddSocket)) < MaxSockets
    /\ session' = Append(session, f)
    /\ UNCHANGED <<tun_pc, tun_status, sockets, queue, udp_handles, tcp_handles,
                   h_batch, h_pre>>
    /\ UNCHANGED notTun

\* Line 161: let (udp_handles, tcp_handles) = do_tun_read(..)?;
DoTunRead ==
    /\ tun_pc = "read"
    /\ LET r == do_tun_read(sockets, queue, session)
       IN /\ sockets' = r.sockets
          /\ queue' = r.queue
          /\ session' = Drop(session, r.consumed)
          /\ tun_status' = r.status
          /\ tun_pc' = IF r.status = "running" THEN "stack" ELSE "exit"
          /\ udp_handles' = IF r.status = "running" THEN r.udp_handles ELSE <<>>
          /\ tcp_handles' = IF r.status = "running" THEN r.tcp_handles ELSE <<>>
    /\ h_batch' = session
    /\ h_pre' = [sockets |-> sockets, queue |-> queue]
    /\ UNCHANGED notTun

\* Lines 162-166: interface.poll(now) takes every packet off the inbound queue
\* (the stack's ingress runs until the device has nothing to receive), and the
\* handles move into the flow managers' do_local.
StackPoll ==
    /\ tun_pc = "stack"
    /\ sockets' = StackIngressAll(sockets, queue)
    /\ queue' = <<>>
    /\ udp_handles' = <<>>
    /\ tcp_handles' = <<>>
    /\ tun_pc' = "read"
    /\ h_batch' = <<>>
    /\ h_pre' = [sockets |-> <<>>, queue |-> <<>>]
    /\ UNCHANGED <<tun_status, session>>
    /\ UNCHANGED notTun

TunNext ==
    \/ \E f \in Frames : TunDeliver(f, MaxBatch)
    \/ DoTunRead
    \/ StackPoll

\* Longer bursts of fewer kinds of frames: more frames in one call of
\* do_tun_read than the inbound queue has room for.
BurstNext ==
    \/ \E f \in BurstFrames : TunDeliver(f, MaxBurst)
    \/ DoTunRead
    \/ StackPoll

(***************************************************************************)
(* Properties of do_tun_read.                                              *)
(***************************************************************************)

\* The frames the last do_tun_read took off the ring.
Processed == Take(h_batch, Len(h_batch) - Len(session))

\* f has a destination endpoint: both of its headers parse.
WellFormed(f) == f.ip \in {"v4", "v6"} /\ f.proto \in {"tcp", "udp"} /\ f.l4ok

PrivateFrame(f) == WellFormed(f) /\ is_private(f.dst)

\* f needs a new socket on an endpoint that listen / bind refuse.
SetupFails(f) ==
    /\ WellFormed(f) /\ ~is_private(f.dst) /\ f.dst.port = 0
    /\ (f.proto = "udp" \/ (f.syn /\ ~f.ack))

\* f does not parse.
Malformed(f) ==
    \/ f.ip \in {"unrecognized", "truncated"}
    \/ f.ip \in {"v4", "v6"} /\ f.proto \in {"tcp", "udp"} /\ ~f.l4ok

\* f is handed to try_send.
Enqueueable(f) == WellFormed(f) /\ ~is_private(f.dst) /\ ~SetupFails(f)

\* C1: the socket set holds at most one TCP socket per flow tuple
\* (source endpoint, destination endpoint), whatever frames were read.
C1_OneTcpSocketPerFlow ==
    \A i, j \in 1..Len(sockets) :
        (/\ sockets[i].kind = "tcp" /\ sockets[j].kind = "tcp"
         /\ sockets[i].local = sockets[j].local
         /\ sockets[i].flow = sockets[j].flow) => i = j

\* C3: at most one UDP socket is bound to each destination, and a call of
\* do_tun_read leaves one handle in udp_handles per non-private UDP datagram
\* of the ring, the handle of the socket bound to the datagram's destination.
C3_UdpSocketPerDestination ==
    /\ \A i, j \in 1..Len(sockets) :
           (/\ sockets[i].kind = "udp" /\ sockets[j].kind = "udp"
            /\ sockets[i].local = sockets[j].local) => i = j
    /\ tun_pc # "read" =>
           LET dgrams == SelectSeq(h_batch, LAMBDA f :
                             WellFormed(f) /\ f.proto = "udp" /\ ~is_private(f.dst))
           IN /\ Len(udp_handles) = Len(dgrams)
              /\ \A n \in 1..Len(dgrams) :
                     /\ udp_handles[n] \in 1..Len(sockets)
                     /\ sockets[udp_handles[n]].kind = "udp"
                     /\ sockets[udp_handles[n]].local = dgrams[n].dst

\* C8: a frame that does not parse, or whose socket cannot be set up, is
\* skipped: it never ends do_tun_read or run, and every frame of the ring is
\* taken.
C8_BadFrameIsSkipped ==
    /\ tun_status \notin {"panic_parse", "panic_listen", "bind_error"}
    /\ tun_pc = "stack" => session = <<>>

C10_PrivateFrameNoEffect ==
    /\ \A i \in 1..Len(sockets) : ~is_private(sockets[i].local)
    /\ \A i \in 1..Len(queue) : ~is_private(queue[i].dst)
    /\ tun_pc # "read" =>
           LET r == do_tun_read(h_pre.sockets, h_pre.queue,
                                SelectSeq(Processed, LAMBDA f : ~PrivateFrame(f)))
           IN /\ sockets = r.sockets
              /\ queue = r.queue
              /\ tun_status = r.status
              /\ tun_status = "running" =>
                     udp_handles = r.udp_handles /\ tcp_handles = r.tcp_handles

\* C10 witness: a ring with a frame to a private destination and a datagram
\* to a public one has been read; only the datagram got a socket and a handle.
C10_Witness ==
    /\ tun_pc = "stack"
    /\ \E i \in 1..Len(h_batch) : PrivateFrame(h_batch[i])
    /\ Len(udp_handles) = 1
    /\ Len(sockets) = Len(h_pre.sockets) + 1

\* The TCP segments of the last call that reached lines 268-290.
TcpSegments ==
    SelectSeq(Processed, LAMBDA f :
        WellFormed(f) /\ f.proto = "tcp" /\ ~is_private(f.dst))

\* The TCP sockets the last call added to the set.
NewTcpSockets ==
    SelectSeq(Drop(sockets, Len(h_pre.sockets)), LAMBDA s : s.kind = "tcp")

\* C11: a call of do_tun_read adds one TCP socket, listening on the
\* destination, for each TCP segment to a non-private destination that has
\* SYN set and ACK clear, and none for any other segment (SYN+ACK included);
\* the sockets it found stay as they were, and a handle it returns for a
\* segment that is no such SYN is the handle of a socket it found, whose local
\* endpoint is the segment's destination and whose remote endpoint its source.
C11_SocketIffSynWithoutAck ==
    tun_pc # "read" =>
        LET syns == SelectSeq(TcpSegments, LAMBDA f : f.syn /\ ~f.ack)
            others == SelectSeq(TcpSegments, LAMBDA f : ~(f.syn /\ ~f.ack))
        IN /\ Take(sockets, Len(h_pre.sockets)) = h_pre.sockets
           /\ Len(NewTcpSockets) = Len(syns)
           /\ \A n \in 1..Len(NewTcpSockets) :
                  /\ n <= Len(syns)
                  /\ NewTcpSockets[n].local = syns[n].dst
                  /\ NewTcpSockets[n].remote = NoEndpoint
           /\ \A n \in 1..Len(tcp_handles) :
                  /\ tcp_handles[n] \in 1..Len(sockets)
                  /\ sockets[tcp_handles[n]].kind = "tcp"
                  /\ tcp_handles[n] <= Len(h_pre.sockets) =>
                         \E k \in 1..Len(others) :
                             /\ sockets[tcp_handles[n]].local = others[k].dst
                             /\ sockets[tcp_handles[n]].remote = others[k].src

\* The TCP segments of the last call that have a socket, created or found,
\* and carry payload or FIN.
TcpNotified ==
    SelectSeq(TcpSegments, LAMBDA f :
        /\ (f.len > 0 \/ f.fin)
        /\ \/ f.syn /\ ~f.ack
           \/ \E i \in 1..Len(h_pre.sockets) :
                  /\ h_pre.sockets[i].kind = "tcp"
                  /\ h_pre.sockets[i].local = f.dst
                  /\ h_pre.sockets[i].remote = f.src)

\* C12: a call of do_tun_read that returns leaves in tcp_handles, in ring
\* order, one handle for each TCP segment that has a socket and carries payload
\* or FIN, the handle of that segment's socket, and none for any other segment:
\* a bare SYN, a pure ACK or an RST without payload adds no handle.
C12_NotifyIffPayloadOrFin ==
    tun_pc = "stack" =>
        /\ Len(tcp_handles) = Len(TcpNotified)
        /\ \A n \in 1..Len(tcp_handles) :
               /\ n <= Len(TcpNotified)
               /\ tcp_handles[n] \in 1..Len(sockets)
               /\ LET f == TcpNotified[n]
                      s == sockets[tcp_handles[n]]
                  IN /\ s.kind = "tcp" /\ s.local = f.dst
                     /\ IF f.syn /\ ~f.ack
                        THEN tcp_handles[n] > Len(h_pre.sockets) /\ s.flow = f.src
                        ELSE tcp_handles[n] <= Len(h_pre.sockets) /\ s.remote = f.src

\* C12 witness: one call returned the handle of a socket it created for a SYN
\* with payload, and did so although the ring also held a bare SYN or a pure
\* ACK of a connected flow, which got no handle.
C12_Witness ==
    /\ tun_pc = "stack"
    /\ Len(tcp_handles) = 1
    /\ tcp_handles[1] > Len(h_pre.sockets)
    /\ Len(TcpSegments) = 2
    /\ \E n \in 1..2 : TcpSegments[n].len = 0 /\ ~TcpSegments[n].fin

(***************************************************************************)
(* server/tls_server.rs                                                    *)
(***************************************************************************)

\* The machine word has WordBits bits: usize::MAX = 2^WordBits - 1.
WordBits == 4

MaxAccept == 2

MaxConns == 2


usize_MAX == 2 ^ WordBits - 1

\* The constants tls_server.rs imports from server (line 12), with the values
\* wintun/mod.rs gives the constants of the same names (lines 44-46).
MIN_INDEX == 2

CHANNEL_CNT == 3

CHANNEL_PROXY == 0

MAX_INDEX == usize_MAX \div CHANNEL_CNT

\* Backend::get_timeout (line 45), in clock ticks.
get_timeout == 1

\* The clock stops one tick after the first timeout can happen.
MaxTime == get_timeout + 1

\* A backend that is timed out as soon as its idle time reaches get_timeout.
timeoutAtLimit(t1, t2) == t2 - t1 >= get_timeout

\* Lines 42-44: Backend::timeout.
timeout(t1, t2) == t2 - t1 > get_timeout

\* Lines 99-106: next_index, on next_id = id: the index returned and the new next_id.
next_index(id) ==
    [index |-> id,
     next_id |-> IF (id + 1) % (2 ^ WordBits) > MAX_INDEX
                 THEN MIN_INDEX ELSE (id + 1) % (2 ^ WordBits)]

\* Line 75: the poll token of the connection with this index.
TokenOf(index) == (index * CHANNEL_CNT + CHANNEL_PROXY) % (2 ^ WordBits)

\* Lines 108-110: token2index.
token2index(token) == token \div CHANNEL_CNT

\* Line 80: Connection::new; a connection is known here by its last activity
\* and by what its destroyed() reports.
NewConn(t) == [last_active |-> t, destroyed |-> FALSE]

\* conns.insert(index, conn): a connection already under index is replaced.
Insert(cs, index, conn) ==
    [i \in DOMAIN cs \cup {index} |-> IF i = index THEN conn ELSE cs[i]]

\* conns.remove(&index), for a set of indices.
Remove(cs, gone) == [i \in DOMAIN cs \ gone |-> cs[i]]

\* Line 121: conn.ready(poll, event, resolver), after which the connection is
\* destroyed or not.
ConnReady(conn, t, alive) ==
    [conn EXCEPT !.last_active = IF alive THEN t ELSE @, !.destroyed = ~alive]

\* Line 137: conn.destroy(poll).
ConnDestroy(conn) == [conn EXCEPT !.destroyed = TRUE]

\* A do_conn_event that keeps a destroyed connection in conns.
RemoveDestroyedNever(cs, index) == cs

\* Lines 122-125: if conn.destroyed() { self.conns.remove(&index) }.
RemoveDestroyed(cs, index) ==
    IF cs[index].destroyed THEN Remove(cs, {index}) ELSE cs

\* No do_conn_event yet, or another call since.
NoEvent == [token |-> 0, destroyed |-> FALSE]

\* What accept did with one stream: the index it took for it (0: none), whether
\* it put the connection into conns, and whether it shut the connection down.
Accepted(r, index, kept, closed) ==
    [result |-> r, index |-> index, kept |-> kept, closed |-> closed]

\* An accept that keeps a connection whether or not it registered.
AcceptStepKeepsAll(st, r) ==
    IF r = "nodelay_fail"
    THEN [st EXCEPT !.log = Append(st.log, Accepted(r, 0, FALSE, FALSE))]
    ELSE LET n == next_index(st.next_id)
         IN [next_id |-> n.next_id,
             conns |-> Insert(st.conns, n.index, NewConn(now)),
             log |-> Append(st.log, Accepted(r, n.index, TRUE, FALSE)),
             handed |-> Append(st.handed, n.index),
             reused |-> IF n.index \in DOMAIN st.conns
                        THEN st.reused \cup {n.index} ELSE st.reused]

\* Lines 61-86: one accepted stream, whose set_nodelay and register end as r says.
AcceptStep(st, r) ==
    IF r = "nodelay_fail"                                  \* continue (69)
    THEN [st EXCEPT !.log = Append(st.log, Accepted(r, 0, FALSE, FALSE))]
    ELSE LET n == next_index(st.next_id)
         IN [next_id |-> n.next_id,
             conns |-> IF r = "ok"
                       THEN Insert(st.conns, n.index, NewConn(now))
                       ELSE st.conns,                      \* shutdown, check_status (83-84)
             log |-> Append(st.log, Accepted(r, n.index, r = "ok", r # "ok")),
             handed |-> Append(st.handed, n.index),
             reused |-> IF n.index \in DOMAIN st.conns
                        THEN st.reused \cup {n.index} ELSE st.reused]

RECURSIVE AcceptLoop(_, _)
\* Lines 59-96: the loop over the streams the listener has.
AcceptLoop(st, rs) ==
    IF rs = <<>> THEN st ELSE AcceptLoop(AcceptStep(st, Head(rs)), Tail(rs))

AcceptResults == {"ok", "nodelay_fail", "register_fail"}

TlsInit ==
    /\ tls_status = "running"
    /\ next_id = MIN_INDEX
    /\ conns = <<>>
    /\ now = 0
    /\ h_handed = <<>>
    /\ h_reused = {}
    /\ tls_op = "new"
    /\ h_removed = {}
    /\ h_accept = [log |-> <<>>, end |-> "none"]
    /\ h_event = NoEvent

\* Lines 58-97: accept.  rs: what happens to each stream the listener returns;
\* the loop ends with WouldBlock, or with another error, which panics.
Accept(rs, end) ==
    /\ tls_status = "running"
    /\ LET r == AcceptLoop([next_id |-> next_id, conns |-> conns, log |-> <<>>,
                            handed |-> <<>>, reused |-> {}], rs)
       IN /\ Cardinality(DOMAIN r.conns) <= MaxConns
          /\ h_accept' = [log |-> r.log, end |-> end]
          /\ next_id' = r.next_id
          /\ conns' = r.conns
          /\ h_handed' = r.handed
          /\ h_reused' = r.reused
    /\ tls_status' = IF end = "error" THEN "panicked" ELSE "running"
    /\ tls_op' = "accept"
    /\ h_removed' = {}
    /\ h_event' = NoEvent
    /\ UNCHANGED now
    /\ UNCHANGED notTls

\* Lines 112-129: do_conn_event.  alive: whether the connection is still not
\* destroyed after conn.ready.
DoConnEvent(token, alive) ==
    /\ tls_status = "running"
    /\ LET index == token2index(token)
       IN IF index \in DOMAIN conns
          THEN /\ conns' = RemoveDestroyed(
                              [conns EXCEPT ![index] = ConnReady(@, now, alive)],
                              index)
               /\ h_event' = [token |-> token, destroyed |-> ~alive]
          ELSE /\ UNCHANGED conns                          \* log::error (127)
               /\ h_event' = [token |-> token, destroyed |-> FALSE]
    /\ h_handed' = <<>>
    /\ h_reused' = {}
    /\ tls_op' = "do_conn_event"
    /\ h_removed' = {}
    /\ h_accept' = [log |-> <<>>, end |-> "none"]
    /\ UNCHANGED <<tls_status, next_id, now>>
    /\ UNCHANGED notTls

\* Lines 131-144: check_timeout(Instant::now(), poll).
CheckTimeout ==
    /\ tls_status = "running"
    /\ LET list == {i \in DOMAIN conns : timeout(conns[i].last_active, now)}
           destroyed == [i \in DOMAIN conns |->
                            IF i \in list THEN ConnDestroy(conns[i]) ELSE conns[i]]
       IN /\ conns' = Remove(destroyed, list)
          /\ h_removed' = list
    /\ h_event' = NoEvent
    /\ h_handed' = <<>>
    /\ h_reused' = {}
    /\ tls_op' = "check_timeout"
    /\ h_accept' = [log |-> <<>>, end |-> "none"]
    /\ UNCHANGED <<tls_status, next_id, now>>
    /\ UNCHANGED notTls

\* Time passes.
Tick ==
    /\ tls_status = "running"
    /\ now < MaxTime
    /\ now' = now + 1
    /\ tls_op' = "tick"
    /\ h_event' = NoEvent
    /\ UNCHANGED <<tls_status, next_id, conns, h_handed, h_reused, h_removed,
                   h_accept>>
    /\ UNCHANGED notTls

\* The tokens accept registers connections under.
ProxyTokens == {TokenOf(i) : i \in MIN_INDEX..MAX_INDEX}

SeqsUpTo(S, n) == UNION {[1..k -> S] : k \in 0..n}

TlsNext ==
    \/ \E rs \in SeqsUpTo(AcceptResults, MaxAccept), end \in {"would_block", "error"} :
           Accept(rs, end)
    \/ \E token \in ProxyTokens, alive \in BOOLEAN : DoConnEvent(token, alive)
    \/ CheckTimeout
    \/ Tick

\* The connection table without the clock: accept and the events of its
\* connections.
TlsAcceptNext ==
    \/ \E rs \in SeqsUpTo(AcceptResults, MaxAccept), end \in {"would_block", "error"} :
           Accept(rs, end)
    \/ \E token \in ProxyTokens, alive \in BOOLEAN : DoConnEvent(token, alive)

\* The connection table under the clock: connections come one by one.
TlsTimeoutNext ==
    \/ \E rs \in SeqsUpTo({"ok"}, 1) : Accept(rs, "would_block")
    \/ \E token \in ProxyTokens : DoConnEvent(token, TRUE)
    \/ CheckTimeout
    \/ Tick

\* The connection table under events that may destroy a connection, and the
\* clock.
TlsEventNext ==
    \/ \E rs \in SeqsUpTo({"ok"}, 1) : Accept(rs, "would_block")
    \/ \E token \in ProxyTokens, alive \in BOOLEAN : DoConnEvent(token, alive)
    \/ CheckTimeout
    \/ Tick

\* C2: next_index hands out MIN_INDEX .. MAX_INDEX in order and wraps to
\* MIN_INDEX, and no index it hands out in accept is the index of a connection
\* that is in conns at that moment.
C2_NoLiveIndexReuse ==
    /\ next_id \in MIN_INDEX..MAX_INDEX
    /\ \A k \in 1..Len(h_handed) :
           /\ h_handed[k] \in MIN_INDEX..MAX_INDEX
           /\ k < Len(h_handed) =>
                  h_handed[k + 1] = IF h_handed[k] = MAX_INDEX
                                    THEN MIN_INDEX ELSE h_handed[k] + 1
    /\ h_handed # <<>> =>
           next_id = IF h_handed[Len(h_handed)] = MAX_INDEX
                     THEN MIN_INDEX ELSE h_handed[Len(h_handed)] + 1
    /\ h_reused = {}

\* C17: a call of check_timeout at time t removes from conns, in that one
\* call, exactly the connections idle for strictly more than get_timeout at t
\* (they are the ones it destroyed), and leaves every other connection as it
\* was.
C17_CheckTimeoutRemovesTimedOut ==
    [][tls_op' = "check_timeout" =>
          /\ DOMAIN conns' =
                 {i \in DOMAIN conns : ~(now - conns[i].last_active > get_timeout)}
          /\ \A i \in DOMAIN conns' : conns'[i] = conns[i]
          /\ h_removed' = DOMAIN conns \ DOMAIN conns'
          /\ \A i \in h_removed' : now - conns[i].last_active > get_timeout]_vars

\* C17 witness: a check_timeout removed a connection and kept another one.
C17_Witness ==
    /\ tls_op = "check_timeout"
    /\ h_removed # {}
    /\ conns # <<>>

\* The index after i in next_index's order.
IndexAfter(i) == IF i >= MAX_INDEX THEN MIN_INDEX ELSE i + 1

\* C20: an accept takes streams until WouldBlock; a stream whose set_nodelay
\* fails is skipped and takes no index; every other stream takes the next
\* index, and its connection is in conns after the call exactly when its
\* register succeeded: one whose register failed is shut down and is not put
\* into conns.  Connections that were in conns stay as they were unless a new
\* one took their index.  Any other accept error panics.
C20_AcceptKeepsRegisteredOnly ==
    [][tls_op' = "accept" =>
          LET log == h_accept'.log
              took == SelectSeq(log, LAMBDA a : a.result # "nodelay_fail")
              ok == {a.index : a \in {b \in Range(log) : b.result = "ok"}}
          IN /\ \A k \in 1..Len(log) :
                    /\ log[k].result = "nodelay_fail" =>
                           log[k].index = 0 /\ ~log[k].kept /\ ~log[k].closed
                    /\ log[k].result = "ok" => log[k].kept /\ ~log[k].closed
                    /\ log[k].result = "register_fail" => ~log[k].kept /\ log[k].closed
             /\ \A k \in 1..Len(took) :
                    took[k].index = IF k = 1 THEN next_id ELSE IndexAfter(took[k - 1].index)
             /\ next_id' = IF took = <<>> THEN next_id
                           ELSE IndexAfter(took[Len(took)].index)
             /\ DOMAIN conns' = DOMAIN conns \cup ok
             /\ \A i \in DOMAIN conns' :
                    conns'[i] = IF i \in ok
                                THEN [last_active |-> now, destroyed |-> FALSE]
                                ELSE conns[i]
             /\ (tls_status' = "panicked") <=> (h_accept'.end = "error")
             /\ (tls_status' = "running") <=> (h_accept'.end = "would_block")]_vars

\* C20 witness: one accept kept a stream that registered and shut down one
\* that did not, which is not in conns.
C20_Witness ==
    /\ tls_op = "accept"
    /\ \E j, k \in 1..Len(h_accept.log) :
           /\ h_accept.log[j].result = "ok"
           /\ h_accept.log[j].index \in DOMAIN conns
           /\ h_accept.log[k].result = "register_fail"
           /\ h_accept.log[k].index \notin DOMAIN conns

\* C23: between the operations of TlsServer no connection in conns is
\* destroyed; a do_conn_event whose index (token / CHANNEL_CNT) is a key of
\* conns removes that connection, and no other, when it reports destroyed()
\* after the event, and keeps every connection otherwise; one whose index is
\* not a key leaves conns and every connection as they were.
C23_NoDestroyedInConns ==
    /\ [](\A i \in DOMAIN conns : ~conns[i].destroyed)
    /\ [][tls_op' = "do_conn_event" =>
              LET index == h_event'.token \div CHANNEL_CNT
              IN IF index \notin DOMAIN conns
                 THEN conns' = conns
                 ELSE /\ DOMAIN conns' = IF h_event'.destroyed
                                         THEN DOMAIN conns \ {index}
                                         ELSE DOMAIN conns
                      /\ \A i \in DOMAIN conns' \ {index} : conns'[i] = conns[i]]_vars

\* C23 witness: an event destroyed one of two connections, which is gone from
\* conns while the other one is still there.
C23_Witness ==
    /\ tls_op = "do_conn_event"
    /\ h_event.destroyed
    /\ h_event.token \div CHANNEL_CNT \notin DOMAIN conns
    /\ conns # <<>>

(***************************************************************************)
(* aproxy/tcp.rs                                                           *)
(***************************************************************************)

MaxFlows == 2

MaxPayload == 1

\* Original destinations of redirected clients.
Dsts == {"d1", "d2"}

\* TrojanRequest::generate(&mut request, CONNECT, &dst_addr), line 63: password
\* hash, CRLF, command, destination, CRLF.
Request(dst) == <<"hash", "crlf", "CONNECT", dst, "crlf">>

\* Lines 56-61: a task as spawn leaves it, before TcpStream::connect.
\* remote_out / local_out: what has been written to the TLS stream / to the
\* client; l2r, r2l: the two copy tasks ("none" until spawned).
NewFlow(dst) ==
    [dst |-> dst, pc |-> "connect", wrote |-> "none",
     remote_out |-> <<>>, local_out |-> <<>>,
     remote_shut |-> FALSE, local_shut |-> FALSE,
     running |-> FALSE, l2r |-> "none", r2l |-> "none"]

\* A start_tcp_proxy that starts the copy tasks whatever write_all returned.
AfterWriteAlways(ok) == "wait"

\* Lines 64-69: if let Err(..) = remote.write_all(..).await { .. } else { .. }
AfterWrite(ok) == IF ok THEN "wait" ELSE "shut_remote"

\* Lines 64-85, up to the next await: write_all has put the first k bytes of
\* the request on the TLS stream and returned Ok iff that is all of them.
WriteStep(f, k) ==
    LET ok == k = Len(Request(f.dst))
        to == AfterWrite(ok)
    IN [f EXCEPT !.remote_out = SubSeq(Request(f.dst), 1, k),
                 !.wrote = IF ok THEN "ok" ELSE "failed",
                 !.pc = to,
                 !.running = (to = "wait"),                        \* 71
                 !.l2r = IF to = "wait" THEN "run" ELSE "none",     \* 72
                 !.r2l = IF to = "wait" THEN "run" ELSE "none"]     \* 79

ProxyInit ==
    /\ acc_status = "running"
    /\ notified = <<>>
    /\ flows = <<>>

AcceptOutcomes == {"ok", "accept_err", "oridst_err", "send_err", "nodelay_err"}

\* Lines 34-47: one turn of run_tcp's loop, each ? returning the error.
RunTcp(outcome, dst) ==
    /\ acc_status = "running"
    /\ Len(flows) < MaxFlows
    /\ acc_status' = IF outcome = "ok" THEN "running" ELSE outcome
    /\ notified' = IF outcome \in {"ok", "nodelay_err"}
                   THEN Append(notified, dst) ELSE notified
    /\ flows' = IF outcome = "ok" THEN Append(flows, NewFlow(dst)) ELSE flows
    /\ UNCHANGED notProxy

\* The rest of a step of task i: nothing but flows[i] changes.
FlowStep(i, f) ==
    /\ flows' = [flows EXCEPT ![i] = f]
    /\ UNCHANGED <<acc_status, notified>>
    /\ UNCHANGED notProxy

\* Lines 56-60: TcpStream::connect(..).await?
RelayConnect(i, ok) ==
    /\ i \in 1..Len(flows) /\ flows[i].pc = "connect"
    /\ FlowStep(i, [flows[i] EXCEPT !.pc = IF ok THEN "handshake" ELSE "failed"])

\* Line 61: connector.connect(server_name, remote).await?
TlsConnect(i, ok) ==
    /\ i \in 1..Len(flows) /\ flows[i].pc = "handshake"
    /\ FlowStep(i, [flows[i] EXCEPT !.pc = IF ok THEN "write" ELSE "failed"])

\* Lines 62-85: generate the request, write_all, and what follows up to the
\* next await.
WriteRequest(i, k) ==
    /\ i \in 1..Len(flows) /\ flows[i].pc = "write"
    /\ k \in 0..Len(Request(flows[i].dst))
    /\ FlowStep(i, WriteStep(flows[i], k))

\* Line 66: let _ = remote.shutdown().await;
ShutRemote(i) ==
    /\ i \in 1..Len(flows) /\ flows[i].pc = "shut_remote"
    /\ FlowStep(i, [flows[i] EXCEPT !.remote_shut = TRUE, !.pc = "shut_local"])

\* Line 67: let _ = local.shutdown().await; then Ok(()) at 87.
ShutLocal(i) ==
    /\ i \in 1..Len(flows) /\ flows[i].pc = "shut_local"
    /\ FlowStep(i, [flows[i] EXCEPT !.local_shut = TRUE, !.pc = "done"])

\* The chunks of payload in a stream.
Payload(out) == SelectSeq(out, LAMBDA b : b = "payload")

\* Line 97: copy(local, remote, ..) moves a chunk the client sent to the relay.
L2RCopy(i) ==
    /\ i \in 1..Len(flows) /\ flows[i].l2r = "run"
    /\ Len(Payload(flows[i].remote_out)) < MaxPayload
    /\ FlowStep(i, [flows[i] EXCEPT !.remote_out = Append(@, "payload")])

\* Copy tasks that both clear the running flag when their copy returns.
CopyEndClearsRunning(f, task) ==
    IF task = "l2r"
    THEN [f EXCEPT !.l2r = "done", !.running = FALSE]
    ELSE [f EXCEPT !.r2l = "done", !.running = FALSE]

\* Lines 97-98 and 79-84: the copy of a task returns; local_to_remote then
\* stores false into running, the other task holds no clone of the flag.
CopyEnd(f, task) ==
    IF task = "l2r"
    THEN [f EXCEPT !.l2r = "done", !.running = FALSE]
    ELSE [f EXCEPT !.r2l = "done"]

\* Lines 97-98: copy returns (end of stream, error or idle timeout), then
\* running.store(false).
L2REnd(i) ==
    /\ i \in 1..Len(flows) /\ flows[i].l2r = "run"
    /\ FlowStep(i, CopyEnd(flows[i], "l2r"))

\* Lines 79-84: copy(remote_read, local_write, ..) moves a chunk from the relay
\* sent to the client.
R2LCopy(i) ==
    /\ i \in 1..Len(flows) /\ flows[i].r2l = "run"
    /\ Len(Payload(flows[i].local_out)) < MaxPayload
    /\ FlowStep(i, [flows[i] EXCEPT !.local_out = Append(@, "payload")])

\* Lines 79-84: that copy returns.
R2LEnd(i) ==
    /\ i \in 1..Len(flows) /\ flows[i].r2l = "run"
    /\ FlowStep(i, CopyEnd(flows[i], "r2l"))

\* aproxy::wait_until_stop(running, ip): whether it returns, which it does
\* once running is false.
wait_until_stop(running) == ~running

\* Lines 85-87: wait_until_stop(running, ..).await returns once running is false.
WaitUntilStop(i) ==
    /\ i \in 1..Len(flows) /\ flows[i].pc = "wait"
    /\ wait_until_stop(flows[i].running)
    /\ FlowStep(i, [flows[i] EXCEPT !.pc = "done"])

ProxyNext ==
    \/ \E outcome \in AcceptOutcomes, dst \in Dsts : RunTcp(outcome, dst)
    \/ \E i \in 1..MaxFlows, ok \in BOOLEAN : RelayConnect(i, ok)
    \/ \E i \in 1..MaxFlows, ok \in BOOLEAN : TlsConnect(i, ok)
    \/ \E i \in 1..MaxFlows, k \in 0..5 : WriteRequest(i, k)
    \/ \E i \in 1..MaxFlows : ShutRemote(i)
    \/ \E i \in 1..MaxFlows : ShutLocal(i)
    \/ \E i \in 1..MaxFlows : L2RCopy(i)
    \/ \E i \in 1..MaxFlows : L2REnd(i)
    \/ \E i \in 1..MaxFlows : R2LCopy(i)
    \/ \E i \in 1..MaxFlows : R2LEnd(i)
    \/ \E i \in 1..MaxFlows : WaitUntilStop(i)

\* The sessions whose request reaches the relay or fails on the way, and their
\* two copy tasks.
ProxySessionNext ==
    \/ RunTcp("ok", "d1")
    \/ \E i \in 1..MaxFlows, ok \in BOOLEAN : RelayConnect(i, ok)
    \/ \E i \in 1..MaxFlows, ok \in BOOLEAN : TlsConnect(i, ok)
    \/ \E i \in 1..MaxFlows, k \in {0, 5} : WriteRequest(i, k)
    \/ \E i \in 1..MaxFlows : ShutRemote(i)
    \/ \E i \in 1..MaxFlows : ShutLocal(i)
    \/ \E i \in 1..MaxFlows : L2RCopy(i)
    \/ \E i \in 1..MaxFlows : L2REnd(i)
    \/ \E i \in 1..MaxFlows : R2LCopy(i)
    \/ \E i \in 1..MaxFlows : R2LEnd(i)
    \/ \E i \in 1..MaxFlows : WaitUntilStop(i)

\* Something of the payload has been forwarded on flow f, in either direction.
Forwarded(f) ==
    \/ f.local_out # <<>>
    \/ Payload(f.remote_out) # <<>>

\* C4: on every flow, a copy task is running or has run, or a byte of payload
\* has been forwarded, only if write_all succeeded and the TLS stream begins
\* with the complete CONNECT request for the flow's destination; and once
\* write_all has failed no copy task ever starts, no payload is forwarded in
\* either direction, and the task ends with both streams shut down.
C4_RequestBeforePayload ==
    \A i \in 1..Len(flows) :
        LET f == flows[i]
            req == Request(f.dst)
        IN /\ (f.l2r # "none" \/ f.r2l # "none" \/ Forwarded(f)) =>
                  /\ f.wrote = "ok"
                  /\ Len(f.remote_out) >= Len(req)
                  /\ SubSeq(f.remote_out, 1, Len(req)) = req
           /\ f.wrote = "failed" =>
                  /\ f.l2r = "none" /\ f.r2l = "none" /\ ~Forwarded(f)
                  /\ f.pc \in {"shut_remote", "shut_local", "done"}
                  /\ f.pc \in {"shut_local", "done"} => f.remote_shut
                  /\ f.pc = "done" => f.local_shut
           /\ f.wrote = "none" => f.remote_out = <<>>

\* One flow was shut down on both sides after a write that failed part way;
\* another forwarded payload in both directions behind its request.
C4_Witness ==
    \E i, j \in 1..Len(flows) :
        /\ flows[i].wrote = "failed" /\ flows[i].pc = "done"
        /\ flows[i].remote_shut /\ flows[i].local_shut
        /\ flows[i].remote_out # <<>>
        /\ flows[j].remote_out = Request(flows[j].dst) \o <<"payload">>
        /\ flows[j].local_out = <<"payload">>

\* C7: run_tcp's accept loop ends only when listener.accept itself fails: an
\* error that concerns one accepted client (original-destination lookup,
\* notifying the address channel, set_nodelay) leaves run_tcp running.
C7_ListenerSurvivesFlowErrors ==
    acc_status \in {"running", "accept_err"}

\* C25: in every session the running flag is cleared only by the step in
\* which the local-to-remote copy ends; the remote-to-local task ending leaves
\* the flag and the session as they are, so while only that task has ended the
\* flag is set and the session waits; a session that started its copy tasks
\* has ended only if the local-to-remote copy has; and once that copy has
\* ended, wait_until_stop returns and the session ends, whatever the other
\* task does.
C25_OnlyLocalToRemoteStops ==
    /\ [][\A i \in 1..Len(flows) :
              /\ (flows[i].running /\ ~flows'[i].running) =>
                     flows[i].l2r = "run" /\ flows'[i].l2r = "done"
              /\ (flows[i].r2l = "run" /\ flows'[i].r2l = "done") =>
                     /\ flows'[i].running = flows[i].running
                     /\ flows'[i].pc = flows[i].pc]_vars
    /\ [](\A i \in 1..Len(flows) :
              /\ flows[i].l2r = "run" => flows[i].running /\ flows[i].pc = "wait"
              /\ flows[i].l2r = "done" => ~flows[i].running)
    /\ \A i \in 1..MaxFlows :
           (i <= Len(flows) /\ flows[i].l2r = "done")
               ~> (i <= Len(flows) /\ flows[i].pc = "done")

\* C25 witness: the remote-to-local copy of a session ended first and the
\* session went on waiting; the local-to-remote copy then ended, and the
\* session with it.
C25_Witness ==
    \E i, j \in 1..Len(flows) :
        /\ flows[i].r2l = "done" /\ flows[i].l2r = "run"
        /\ flows[i].running /\ flows[i].pc = "wait"
        /\ flows[j].l2r = "done" /\ flows[j].r2l = "run" /\ flows[j].pc = "done"

(***************************************************************************)
(* server/udp_backend.rs                                                   *)
(***************************************************************************)

\* Largest datagram the target sends back.
MaxSize == 1

\* Most datagrams one do_read receives.
MaxDgrams == 2

\* Most send_to calls that succeed in one do_send.
MaxSends == 2

\* proto::MAX_BUFFER_SIZE (line 8), scaled down.
MAX_BUFFER_SIZE == 3

Backends == {"b1", "b2"}

\* Bytes of the Trojan UDP frame: SOCKS5 address . length . CRLF . payload.
\* One byte stands for the address (its type byte), one for the length and one
\* for CRLF.
ATYP_V4 == 1

ATYP_V6 == 4

CRLF == 13

PayloadByte == 7

UdpAddrs == {ATYP_V4, ATYP_V6}

Body(n) == [k \in 1..n |-> PayloadByte]

\* UdpAssociate::generate(&mut recv_head, &addr, size as u16), line 125.
generate(addr, size) == <<addr, size, CRLF>>

\* The frame of datagram d: header, then d.size bytes.
FrameOf(d) == generate(d.addr, d.size) \o Body(d.size)

RECURSIVE FramesOf(_)
FramesOf(ds) == IF ds = <<>> THEN <<>> ELSE FrameOf(Head(ds)) \o FramesOf(Tail(ds))

\* UdpAssociate::parse(buffer), line 49: Packet with the address, the length
\* and everything behind the header; Continued while the frame is incomplete;
\* InvalidProtocol on a byte that cannot begin an address or a missing CRLF.
parse(buffer) ==
    IF buffer = <<>> THEN [kind |-> "Continued"]
    ELSE IF buffer[1] \notin UdpAddrs THEN [kind |-> "InvalidProtocol"]
    ELSE IF Len(buffer) < 3 THEN [kind |-> "Continued"]
    ELSE IF buffer[3] # CRLF THEN [kind |-> "InvalidProtocol"]
    ELSE IF Len(buffer) < 3 + buffer[2] THEN [kind |-> "Continued"]
    ELSE [kind |-> "Packet", address |-> buffer[1], length |-> buffer[2],
          payload |-> Drop(buffer, 3)]

is_readable(interest) == interest \in {"R", "RW"}

is_writable(interest) == interest \in {"W", "RW"}

\* Lines 29-45: new.  registered: the socket is registered with the poll.
NewBackend ==
    [status |-> "Established", send_buffer |-> <<>>, interest |-> "R",
     registered |-> TRUE]

\* A do_send that logs the invalid frame and leaves the status as it is.
InvalidProtocolKeeps(st) == st

\* Lines 92-96: the InvalidProtocol arm of do_send.
InvalidProtocolStep(st) == [st EXCEPT !.status = "Closing"]

\* A do_send that ends a shutdown with bytes still unsent.
AfterSendLoopDropsPending(st) ==
    IF st.status = "Shutdown" THEN [st EXCEPT !.status = "Closing"] ELSE st

\* Lines 104-109: after the loop.
AfterSendLoop(st) ==
    IF st.status = "Shutdown" /\ st.send_buffer = <<>>
    THEN [st EXCEPT !.status = "Closing"] ELSE st

RECURSIVE SendLoop(_, _, _, _, _)
\* Lines 48-103: the loop of do_send.  The next oks calls of send_to succeed;
\* the one after them ends as fault says ("would_block", "err" or "trunc": a
\* size short of the length, which a datagram of length 0 cannot have).
SendLoop(st, buffer, oks, fault, sent) ==
    LET p == parse(buffer)
    IN CASE p.kind = "Packet" ->
              IF oks > 0 \/ (fault = "trunc" /\ p.length = 0)
              THEN SendLoop(st, Drop(p.payload, p.length),                 \* 73
                            IF oks > 0 THEN oks - 1 ELSE 0, fault,
                            Append(sent, [addr |-> p.address, size |-> p.length,
                                          payload |-> Take(p.payload, p.length)]))
              ELSE IF fault = "would_block"
              THEN [st |-> AfterSendLoop([st EXCEPT !.send_buffer = @ \o buffer]),
                    sent |-> sent, invalid |-> FALSE, failed |-> FALSE,
                    blocked |-> TRUE]                                      \* 75-79
              ELSE [st |-> [st EXCEPT !.status = "Closing"],
                    sent |-> sent, invalid |-> FALSE, failed |-> TRUE,
                    blocked |-> FALSE]                                     \* 57-66, 80-89
         [] p.kind = "InvalidProtocol" ->
              [st |-> InvalidProtocolStep(st), sent |-> sent, invalid |-> TRUE,
               failed |-> FALSE, blocked |-> FALSE]
         [] OTHER ->
              [st |-> AfterSendLoop([st EXCEPT !.send_buffer = @ \o buffer]),
               sent |-> sent, invalid |-> FALSE, failed |-> FALSE,
               blocked |-> FALSE]                                          \* 97-101

\* Lines 47-110: do_send.
do_send(st, buffer, oks, fault) == SendLoop(st, buffer, oks, fault, <<>>)

\* A dispatch that puts the new bytes before the bytes held back.
dispatchNewFirst(st, buffer, oks, fault) ==
    IF st.send_buffer = <<>>
    THEN do_send(st, buffer, oks, fault)
    ELSE do_send([st EXCEPT !.send_buffer = <<>>], buffer \o st.send_buffer, oks, fault)

\* Lines 174-182: dispatch.
dispatch(st, buffer, oks, fault) ==
    IF st.send_buffer = <<>>
    THEN do_send(st, buffer, oks, fault)
    ELSE do_send([st EXCEPT !.send_buffer = <<>>], st.send_buffer \o buffer, oks, fault)

RECURSIVE ReadDgrams(_, _, _, _)
\* Lines 113-145: the loop of do_read.  ds: the datagrams recv_from returns;
\* end: how the loop ends: recv_from returns WouldBlock ("would_block") or
\* another error ("err"), or conn.write_session refuses the header
\* ("head_fail") or the payload ("body_fail") of the last datagram of ds.  A
\* write_session that fails enqueues nothing.
ReadDgrams(st, ds, end, enq) ==
    IF ds = <<>>
    THEN [st |-> IF end = "err" THEN [st EXCEPT !.status = "Closing"] ELSE st,
          enq |-> enq]                                                     \* 135-143
    ELSE LET d == Head(ds)
             last == Len(ds) = 1
         IN IF last /\ end = "head_fail"
            THEN [st |-> [st EXCEPT !.status = "Closing"], enq |-> enq]    \* 126-129
            ELSE IF last /\ end = "body_fail"
            THEN [st |-> [st EXCEPT !.status = "Closing"],
                  enq |-> enq \o generate(d.addr, d.size)]                 \* 130-133
            ELSE ReadDgrams(st, Tail(ds), end,
                            enq \o generate(d.addr, d.size) \o Body(d.size))

\* Lines 112-147: do_read; what it enqueued, conn.do_send() then flushes.
do_read(st, ds, end) == ReadDgrams(st, ds, end, <<>>)

ReadEnds == {"would_block", "err", "head_fail", "body_fail"}

\* Lines 149-161: setup.
setup(st, ok) == IF ok THEN st ELSE [st EXCEPT !.status = "Closing"]

\* A reregister that never takes READABLE out of the interest.
reregisterKeepsReadable(st, readable, ok) ==
    IF st.status = "Closing" THEN [st EXCEPT !.registered = FALSE]
    ELSE IF st.status = "Closed" THEN st
    ELSE LET i0 == st.interest
             c1 == st.send_buffer # <<>> /\ ~is_writable(i0)
             i1 == IF c1 THEN "RW" ELSE i0
             c2 == st.send_buffer = <<>> /\ is_writable(i1)
             i2 == IF c2 THEN "R" ELSE i1
             c3 == readable /\ ~is_readable(i2)
             i3 == IF c3 THEN "RW" ELSE i2
         IN IF c1 \/ c2 \/ c3
            THEN setup([st EXCEPT !.interest = i3], ok)
            ELSE st

\* Lines 184-224: reregister.
reregister(st, readable, ok) ==
    IF st.status = "Closing" THEN [st EXCEPT !.registered = FALSE]
    ELSE IF st.status = "Closed" THEN st
    ELSE LET i0 == st.interest
             c1 == st.send_buffer # <<>> /\ ~is_writable(i0)
             i1 == IF c1 THEN "RW" ELSE i0
             c2 == st.send_buffer = <<>> /\ is_writable(i1)
             i2 == IF c2 THEN "R" ELSE i1
             c3 == readable /\ ~is_readable(i2)
             i3 == IF c3 THEN "RW" ELSE i2
             c4 == ~readable /\ is_readable(i3)
             i4 == IF c4 THEN "W" ELSE i3
         IN IF c1 \/ c2 \/ c3 \/ c4
            THEN setup([st EXCEPT !.interest = i4], ok)
            ELSE st

\* Lines 226-238: check_close.
check_close(st) ==
    IF st.status = "Closing"
    THEN [st EXCEPT !.status = "Closed", !.registered = FALSE] ELSE st

\* Lines 248-258: shutdown.
shutdown(st, ok) ==
    IF st.send_buffer = <<>>
    THEN check_close([st EXCEPT !.status = "Closing"])
    ELSE check_close(setup([st EXCEPT !.interest = "W", !.status = "Shutdown"], ok))

\* Lines 260-262: writable.
writable(st) == Len(st.send_buffer) < MAX_BUFFER_SIZE

\* What a call may leave in h_udp.  was: the backend as the call found it;
\* failed: a send_to failed or sent less than the datagram; readable: the flag
\* given to reregister; setup_ran: the call ran setup; setup_failed: it did and
\* the poll's reregister failed.
NoHistory ==
    [op |-> "none", idx |-> "none", invalid |-> FALSE, sent |-> <<>>,
     dgrams |-> <<>>, end |-> "none", enq |-> <<>>, was |-> NewBackend,
     failed |-> FALSE, readable |-> FALSE, setup_ran |-> FALSE,
     setup_failed |-> FALSE]

UdpInit ==
    /\ backends = [b \in Backends |-> NewBackend]
    /\ h_udp = NoHistory

\* One whole frame of n payload bytes to the address ATYP_V4.
F(n) == FrameOf([addr |-> ATYP_V4, size |-> n])

\* What the connection hands to dispatch: whole frames, the two halves of a
\* frame, a frame with a bad address byte, a frame without CRLF, and frames
\* followed by the beginning of the next.
Chunks ==
    {F(1), F(0) \o F(1), <<ATYP_V4, 1>>, <<CRLF, PayloadByte>>,
     <<9, 1, CRLF, PayloadByte>>, <<ATYP_V4, 1, PayloadByte, PayloadByte>>,
     F(1) \o <<9>>, F(1) \o <<ATYP_V4>>}

Faults == {"would_block", "err", "trunc"}

\* What the target sends back: datagrams of every size from one address, and
\* an empty one from another.
Dgrams ==
    [addr : {ATYP_V4}, size : 1..MaxSize] \cup {[addr |-> ATYP_V6, size |-> 0]}

\* What the send_to calls of one do_send do: "all" succeed, or the first oks
\* succeed and the next ends as fault says.
SendOracles ==
    {[oks |-> MaxSends, fault |-> "would_block"]}
        \cup [oks : 0..(MaxSends - 1), fault : Faults]

\* The call on backend b ends: it is in state st, the history is h.
UdpDone(b, st, h) ==
    /\ backends' = [backends EXCEPT ![b] = st]
    /\ h_udp' = [h EXCEPT !.was = backends[b]]
    /\ UNCHANGED notUdp

\* The connection has plaintext for backend b (Backend::dispatch), which it
\* does while the backend is writable.
Dispatch(b, chunk, oks, fault) ==
    /\ writable(backends[b])
    /\ LET r == dispatch(backends[b], chunk, oks, fault)
       IN UdpDone(b, r.st, [NoHistory EXCEPT !.op = "dispatch", !.idx = b,
                                             !.invalid = r.invalid, !.sent = r.sent,
                                             !.failed = r.failed])

\* In place of an oracle: the event does not say writable.
NotWritable == [oks |-> 0, fault |-> "none"]

\* Lines 165-172: ready, on an event of the socket that says readable, and
\* writable too if w is an oracle for the send_to calls.
ReadyReadable(b, ds, end, w) ==
    /\ backends[b].registered /\ is_readable(backends[b].interest)
    /\ w # NotWritable => is_writable(backends[b].interest)
    /\ end \in {"head_fail", "body_fail"} => ds # <<>>
    /\ LET r == do_read(backends[b], ds, end)
           d == IF w # NotWritable THEN dispatch(r.st, <<>>, w.oks, w.fault)
                ELSE [st |-> r.st, sent |-> <<>>, invalid |-> FALSE, failed |-> FALSE,
                      blocked |-> FALSE]
       IN UdpDone(b, d.st, [NoHistory EXCEPT !.op = "do_read", !.idx = b,
                                             !.invalid = d.invalid, !.sent = d.sent,
                                             !.failed = d.failed,
                                             !.dgrams = ds, !.end = end,
                                             !.enq = r.enq])

\* Lines 165-172: ready, on an event that says writable only.
ReadyWritable(b, w) ==
    /\ backends[b].registered /\ is_writable(backends[b].interest)
    /\ LET r == dispatch(backends[b], <<>>, w.oks, w.fault)
       IN UdpDone(b, r.st, [NoHistory EXCEPT !.op = "flush", !.idx = b,
                                             !.invalid = r.invalid, !.sent = r.sent,
                                             !.failed = r.failed])

\* The connection calls reregister after an event.  ok: what the poll's
\* reregister returns, which is an error for a socket that is not registered.
Reregister(b, readable, ok) ==
    /\ ok => backends[b].registered
    /\ UdpDone(b, reregister(backends[b], readable, ok),
               [NoHistory EXCEPT !.op = "reregister", !.idx = b,
                                 !.readable = readable,
                                 !.setup_ran =
                                     reregister(backends[b], readable, FALSE)
                                         # reregister(backends[b], readable, TRUE),
                                 !.setup_failed =
                                     reregister(backends[b], readable, ok)
                                         # reregister(backends[b], readable, TRUE)])

\* The connection calls check_close after an event.
CheckClose(b) ==
    /\ b \in Backends
    /\ UdpDone(b, check_close(backends[b]),
               [NoHistory EXCEPT !.op = "check_close", !.idx = b])

\* The connection shuts the backend down.
Shutdown(b, ok) ==
    /\ ok => backends[b].registered
    /\ UdpDone(b, shutdown(backends[b], ok),
               [NoHistory EXCEPT !.op = "shutdown", !.idx = b,
                                 !.setup_failed =
                                     shutdown(backends[b], ok)
                                         # shutdown(backends[b], TRUE)])

\* The send_to calls all succeed, or the first of them blocks.
PairOracles == {[oks |-> MaxSends, fault |-> "would_block"],
                [oks |-> 0, fault |-> "would_block"]}

\* One backend, every input.
UdpNext ==
    \/ \E chunk \in Chunks, w \in SendOracles : Dispatch("b1", chunk, w.oks, w.fault)
    \/ \E ds \in SeqsUpTo(Dgrams, MaxDgrams), end \in ReadEnds,
          w \in PairOracles \cup {NotWritable} :
           ReadyReadable("b1", ds, end, w)
    \/ \E w \in SendOracles : ReadyWritable("b1", w)
    \/ \E readable, ok \in BOOLEAN : Reregister("b1", readable, ok)
    \/ CheckClose("b1")
    \/ \E ok \in BOOLEAN : Shutdown("b1", ok)

\* What the connections hand to dispatch when two backends are followed.
PairChunks ==
    {F(1), <<ATYP_V4, 1>>, <<CRLF, PayloadByte>>, <<9, 1, CRLF, PayloadByte>>,
     <<ATYP_V4, 1, PayloadByte, PayloadByte>>}

\* Two backends, fewer inputs.
UdpPairNext ==
    \/ \E b \in Backends, chunk \in PairChunks, w \in PairOracles :
           Dispatch(b, chunk, w.oks, w.fault)
    \/ \E b \in Backends, ds \in SeqsUpTo(Dgrams, 1), w \in PairOracles \cup {NotWritable} :
           ReadyReadable(b, ds, "would_block", w)
    \/ \E b \in Backends, w \in PairOracles : ReadyWritable(b, w)
    \/ \E b \in Backends, readable \in BOOLEAN : Reregister(b, readable, TRUE)
    \/ \E b \in Backends : CheckClose(b)
    \/ \E b \in Backends : Shutdown(b, TRUE)

\* C5: what a do_read enqueues to the TLS session is the frames of the
\* datagrams it received, whole and in order: header (the datagram's address,
\* its size), then that many bytes; all of them when the loop ends on recv_from,
\* and those before the refused one when the session refuses a write.  No
\* header is enqueued without its payload.
C5_AtomicFraming ==
    h_udp.op = "do_read" =>
        \E n \in 0..Len(h_udp.dgrams) :
            /\ h_udp.enq = FramesOf(Take(h_udp.dgrams, n))
            /\ h_udp.end \in {"would_block", "err"} => n = Len(h_udp.dgrams)

\* C6: a call on one backend changes no other backend (status, send buffer,
\* interest, registration), and a dispatch that meets a malformed frame leaves
\* the backend it was made on Closing.
C6_MalformedFrameClosesOnlyOwner ==
    [][/\ \A b \in Backends \ {h_udp'.idx} : backends'[b] = backends[b]
       /\ (h_udp'.op = "dispatch" /\ h_udp'.invalid) =>
              backends'[h_udp'.idx].status = "Closing"]_vars

\* A malformed frame has just closed b1 while b2, established, holds unsent
\* bytes and waits for its socket to become writable.
C6_Witness ==
    /\ h_udp.op = "dispatch" /\ h_udp.invalid /\ h_udp.idx = "b1"
    /\ backends["b1"].status = "Closing"
    /\ backends["b2"].status = "Established"
    /\ backends["b2"].send_buffer # <<>>
    /\ backends["b2"].interest = "RW"
    /\ backends["b2"].registered

\* The order of the states of a connection.
Rank(status) ==
    CASE status = "Established" -> 0
      [] status = "Shutdown" -> 1
      [] status = "Closing" -> 2
      [] status = "Closed" -> 3

\* C18: no call (ready, dispatch, reregister, shutdown, check_close) moves a
\* backend out of Closed or back in the order Established, Shutdown, Closing,
\* Closed, and a backend that is Closed has its socket deregistered.
C18_ClosedIsTerminal ==
    h_udp.op # "none" =>
        LET s == h_udp.was
            t == backends[h_udp.idx]
        IN /\ s.status = "Closed" => t.status = "Closed"
           /\ Rank(t.status) >= Rank(s.status)
           /\ t.status = "Closed" => ~t.registered

\* A call has run do_send.
SendRan == h_udp.op \in {"dispatch", "flush", "do_read"}

\* C19 as stated: a shutdown with an empty send_buffer ends Closed and
\* deregistered, one with pending bytes ends in Shutdown with interest
\* WRITABLE only; a backend leaves Shutdown only when a do_send has emptied
\* send_buffer, or on a send error or a protocol violation.
C19_ShutdownDrains ==
    h_udp.op # "none" =>
        LET s == h_udp.was
            t == backends[h_udp.idx]
        IN /\ h_udp.op = "shutdown" =>
                  IF s.send_buffer = <<>>
                  THEN t.status = "Closed" /\ ~t.registered
                  ELSE t.status = "Shutdown" /\ t.interest = "W"
           /\ (s.status = "Shutdown" /\ t.status # "Shutdown") =>
                  \/ SendRan /\ t.send_buffer = <<>>
                  \/ h_udp.failed
                  \/ h_udp.invalid

\* C19, amended: a shutdown with an empty send_buffer ends Closed and
\* deregistered; one with pending bytes ends in Shutdown with interest
\* WRITABLE only and the bytes kept, unless its reregister fails, and then it
\* ends Closed and deregistered; a backend leaves Shutdown only when a do_send
\* has emptied send_buffer, or on a send error, a protocol violation, an error
\* of do_read (recv_from, write_session) or a failed reregister.
C19_ShutdownDrainsOrFails ==
    h_udp.op # "none" =>
        LET s == h_udp.was
            t == backends[h_udp.idx]
        IN /\ h_udp.op = "shutdown" =>
                  IF s.send_buffer = <<>> \/ h_udp.setup_failed
                  THEN t.status = "Closed" /\ ~t.registered
                  ELSE /\ t.status = "Shutdown" /\ t.interest = "W"
                       /\ t.send_buffer = s.send_buffer
           /\ (s.status = "Shutdown" /\ t.status # "Shutdown") =>
                  /\ t.status \in {"Closing", "Closed"}
                  /\ \/ SendRan /\ t.send_buffer = <<>>
                     \/ h_udp.failed
                     \/ h_udp.invalid
                     \/ h_udp.op = "do_read" /\ h_udp.end \in {"err", "head_fail", "body_fail"}
                     \/ h_udp.setup_failed
           /\ t.status = "Shutdown" => t.send_buffer # <<>>

\* C19 witness: a backend in Shutdown with unsent bytes has sent them in one
\* do_send and is Closing, its send_buffer empty.
C19_Witness ==
    /\ h_udp.op = "flush"
    /\ h_udp.was.status = "Shutdown" /\ h_udp.was.send_buffer # <<>>
    /\ h_udp.was.interest = "W"
    /\ ~h_udp.failed /\ ~h_udp.invalid /\ h_udp.sent # <<>>
    /\ backends[h_udp.idx].status = "Closing"
    /\ backends[h_udp.idx].send_buffer = <<>>

\* C22 as stated: after a reregister in a status other than Closing and
\* Closed the interest has WRITABLE exactly when send_buffer is not empty and
\* READABLE exactly when readable is true, and setup ran exactly when the
\* interest changed; in Closing the socket is deregistered, in Closed nothing
\* happens.
C22_InterestFollowsBuffer ==
    h_udp.op = "reregister" =>
        LET s == h_udp.was
            t == backends[h_udp.idx]
        IN IF s.status = "Closing" THEN t = [s EXCEPT !.registered = FALSE]
           ELSE IF s.status = "Closed" THEN t = s
           ELSE /\ (t.interest \in {"W", "RW"}) <=> (s.send_buffer # <<>>)
                /\ (t.interest \in {"R", "RW"}) <=> h_udp.readable
                /\ h_udp.setup_ran <=> (t.interest # s.interest)

\* C22, amended: after a reregister in a status other than Closing and Closed
\* the interest has READABLE exactly when readable is true, and WRITABLE
\* exactly when send_buffer is not empty or readable is false (an interest is
\* never empty); setup ran whenever the interest changed, and besides only
\* when the interest was WRITABLE alone, send_buffer empty and readable false;
\* nothing but the interest changes, and the status only when setup fails; in
\* Closing the socket is deregistered, in Closed nothing happens.
C22_InterestFollowsBufferOrWritable ==
    h_udp.op = "reregister" =>
        LET s == h_udp.was
            t == backends[h_udp.idx]
        IN IF s.status = "Closing" THEN t = [s EXCEPT !.registered = FALSE]
           ELSE IF s.status = "Closed" THEN t = s
           ELSE /\ (t.interest \in {"R", "RW"}) <=> h_udp.readable
                /\ (t.interest \in {"W", "RW"}) <=>
                       (s.send_buffer # <<>> \/ ~h_udp.readable)
                /\ h_udp.setup_ran <=>
                       \/ t.interest # s.interest
                       \/ s.interest = "W" /\ s.send_buffer = <<>> /\ ~h_udp.readable
                /\ t.send_buffer = s.send_buffer /\ t.registered = s.registered
                /\ t.status = IF h_udp.setup_failed THEN "Closing" ELSE s.status
                /\ h_udp.setup_failed => h_udp.setup_ran

\* C22 witness: a reregister with readable false took READABLE out of the
\* interest of an established backend that holds unsent bytes.
C22_Witness ==
    /\ h_udp.op = "reregister" /\ ~h_udp.readable /\ h_udp.setup_ran
    /\ h_udp.was.status = "Established" /\ h_udp.was.interest = "RW"
    /\ h_udp.was.send_buffer # <<>>
    /\ backends[h_udp.idx].interest = "W"
    /\ backends[h_udp.idx].status = "Established"

\* The send_to calls of a writable event all succeed.
AllSent == [oks |-> MaxSends, fault |-> "would_block"]

\* The connection has plaintext for a backend it has not shut down.
DispatchEstablished(b, chunk, w) ==
    /\ backends[b].status = "Established"
    /\ Dispatch(b, chunk, w.oks, w.fault)

\* One backend that is shut down: the connection hands it bytes while it is
\* established, shuts it down, and calls reregister and check_close after the
\* events; the socket's writable events call dispatch with no new bytes.
UdpLiveNext ==
    \/ \E chunk \in Chunks, w \in PairOracles : DispatchEstablished("b1", chunk, w)
    \/ \E w \in PairOracles : ReadyWritable("b1", w)
    \/ \E readable \in BOOLEAN : Reregister("b1", readable, TRUE)
    \/ CheckClose("b1")
    \/ Shutdown("b1", TRUE)

\* C24: a backend that enters Shutdown eventually reaches Closed, whatever
\* bytes were pending in send_buffer at shutdown, when the socket is writable
\* again and again and check_close is called after each event.
C24_ShutdownReachesClosed ==
    (backends["b1"].status = "Shutdown") ~> (backends["b1"].status = "Closed")

(***************************************************************************)
(* server/udp_backend.rs: the bytes that pass through one UdpBackend       *)
(***************************************************************************)
MaxStream == 8

OtherByte == 8

\* The frame of a datagram that was sent: header, then its payload.
Encode(d) == generate(d.addr, d.size) \o d.payload

RECURSIVE EncodeAll(_)
EncodeAll(ds) == IF ds = <<>> THEN <<>> ELSE Encode(Head(ds)) \o EncodeAll(Tail(ds))

\* What the connection hands to dispatch: whole frames with different
\* payloads, an empty frame, and the pieces of a frame.
StreamChunks ==
    {F(1), <<ATYP_V6, 1, CRLF, OtherByte>>, F(0), <<ATYP_V4>>, <<ATYP_V4, 1>>,
     <<1, CRLF>>, <<CRLF, PayloadByte>>, <<PayloadByte>>, <<9>>}

StreamInit ==
    /\ s_backend = NewBackend
    /\ s_in = <<>>
    /\ s_out = <<>>
    /\ s_clean = TRUE
    /\ s_blocked = FALSE

\* The call ends: r is what dispatch returned.
StreamDone(r) ==
    /\ s_backend' = r.st
    /\ s_out' = s_out \o r.sent
    /\ s_clean' = (s_clean /\ ~r.failed /\ ~r.invalid)
    /\ s_blocked' = r.blocked
    /\ UNCHANGED notStream

\* Lines 174-182: the connection hands chunk to dispatch.
StreamDispatch(chunk, w) ==
    /\ Len(s_in) + Len(chunk) <= MaxStream
    /\ s_in' = s_in \o chunk
    /\ StreamDone(dispatch(s_backend, chunk, w.oks, w.fault))

\* Lines 169-171: a writable event, dispatch(&[]).
StreamWritable(w) ==
    /\ s_in' = s_in
    /\ StreamDone(dispatch(s_backend, <<>>, w.oks, w.fault))

StreamNext ==
    \/ \E chunk \in StreamChunks, w \in SendOracles : StreamDispatch(chunk, w)
    \/ \E w \in SendOracles : StreamWritable(w)

\* C21: as long as no send error and no protocol violation has occurred, the
\* bytes dispatched so far are the frames of the datagrams sent so far (each
\* with its address and its payload, once, in order) followed by send_buffer;
\* and a do_send that did not end on WouldBlock has left no complete frame in
\* send_buffer.
C21_StreamPreserved ==
    s_clean =>
        /\ s_in = EncodeAll(s_out) \o s_backend.send_buffer
        /\ \A n \in 1..Len(s_out) :
               /\ s_out[n].addr \in UdpAddrs
               /\ Len(s_out[n].payload) = s_out[n].size
        /\ ~s_blocked =>
               \/ s_backend.send_buffer = <<>>
               \/ s_backend.send_buffer[1] \in UdpAddrs
                      /\ \/ Len(s_backend.send_buffer) < 3
                         \/ /\ s_backend.send_buffer[3] = CRLF
                            /\ Len(s_backend.send_buffer) < 3 + s_backend.send_buffer[2]

\* C21 witness: two frames with different payloads have been sent, one of
\* them held back by WouldBlock, and a piece of a third is in send_buffer.
C21_Witness ==
    /\ s_clean
    /\ Len(s_out) = 2
    /\ s_out[1].payload # s_out[2].payload
    /\ s_backend.send_buffer = <<ATYP_V4>>

(***************************************************************************)
(* wintun/mod.rs: run's event loop                                         *)
(***************************************************************************)
MaxRegistered == 2

MaxEvents == 2

RESOLVER == 1

CHANNEL_IDLE == 0

CHANNEL_UDP == 1

CHANNEL_TCP == 2

Channels == {CHANNEL_IDLE, CHANNEL_UDP, CHANNEL_TCP}

\* The poll token of channel c of index i, in the machine word (a release
\* build wraps; a debug build panics on the same inputs).
Token(i, c) == (i * CHANNEL_CNT + c) % (2 ^ WordBits)

\* Lines 175-190: the arm of the match an event's token selects.
Handler(token) ==
    IF token = RESOLVER THEN "resolver.consume"
    ELSE IF token % CHANNEL_CNT = CHANNEL_IDLE THEN "pool.ready"
    ELSE IF token % CHANNEL_CNT = CHANNEL_UDP THEN "udp_server.do_remote"
    ELSE "tcp_server.do_remote"

\* The handler that owns the objects of a channel.
ChannelHandler(c) ==
    IF c = CHANNEL_IDLE THEN "pool.ready"
    ELSE IF c = CHANNEL_UDP THEN "udp_server.do_remote"
    ELSE "tcp_server.do_remote"

\* poll_delay's result: no deadline, or a duration in microseconds.
NoDeadline == [some |-> FALSE, micros |-> 0]

Deadline(us) == [some |-> TRUE, micros |-> us]

PollDelays == {NoDeadline} \cup {Deadline(us) : us \in {0, 500, 1000, 2500}}

\* Line 141: the fixed timeout, one millisecond.
DefaultTimeout == Deadline(1000)

\* Option::or, line 169.
Or(a, b) == IF a.some THEN a ELSE b

\* Duration::total_millis, line 172.
total_millis(d) == d.micros \div 1000

\* Lines 169-172: the timeout handed to poll.poll, in milliseconds.
PollTimeout(delay) == total_millis(Or(delay, DefaultTimeout))

\* The source of a readiness event: the resolver's waker or a registered object.
Waker == [index |-> 0, channel |-> 0, token |-> RESOLVER]

Registered(i, c) == [index |-> i, channel |-> c, token |-> Token(i, c)]

\* Lines 174-191: the for loop over the events of one poll.
DispatchAll(evs) ==
    [n \in 1..Len(evs) |->
        [source |-> evs[n], token |-> evs[n].token, handler |-> Handler(evs[n].token)]]

PollInit ==
    /\ loop_status = "running"
    /\ registry = {}
    /\ h_poll = [delay |-> NoDeadline, timeout |-> 0, polled |-> FALSE]
    /\ h_events = <<>>

\* An object takes index i of [MIN_INDEX, MAX_INDEX] (line 119) and registers
\* its channel's token with poll.
Register(i, c) ==
    /\ loop_status = "running"
    /\ Cardinality(registry) < MaxRegistered
    /\ \A e \in registry : e.index # i
    /\ registry' = registry \cup {Registered(i, c)}
    /\ UNCHANGED <<loop_status, h_poll, h_events>>
    /\ UNCHANGED notPoll

\* An object is closed and leaves poll.
Deregister(e) ==
    /\ loop_status = "running"
    /\ e \in registry
    /\ registry' = registry \ {e}
    /\ UNCHANGED <<loop_status, h_poll, h_events>>
    /\ UNCHANGED notPoll

\* Lines 168-191: one poll and the dispatch of its events.
PollEvents(delay, evs, ok) ==
    /\ loop_status = "running"
    /\ h_poll' = [delay |-> delay, timeout |-> PollTimeout(delay), polled |-> TRUE]
    /\ IF ok
       THEN /\ h_events' = DispatchAll(evs)
            /\ UNCHANGED loop_status
       ELSE /\ loop_status' = "poll_err"
            /\ h_events' = <<>>
    /\ UNCHANGED registry
    /\ UNCHANGED notPoll

PollNext ==
    \/ \E i \in MIN_INDEX..MAX_INDEX, c \in Channels : Register(i, c)
    \/ \E e \in registry : Deregister(e)
    \/ \E delay \in PollDelays, ok \in BOOLEAN :
          \E evs \in (IF ok THEN SeqsUpTo(registry \cup {Waker}, MaxEvents) ELSE {<<>>}) :
              PollEvents(delay, evs, ok)

\* C13: every event of a poll goes to the one handler its source's token
\* selects: the waker's to the resolver, that of channel c of an index of
\* [MIN_INDEX, MAX_INDEX] to the pool (IDLE), the UDP remote side (UDP) or the
\* TCP remote side (TCP); token / CHANNEL_CNT and token mod CHANNEL_CNT are the
\* source's index and channel, and no such token equals RESOLVER.
C13_DispatchByToken ==
    \A n \in 1..Len(h_events) :
        LET d == h_events[n]
        IN IF d.source = Waker
           THEN d.handler = "resolver.consume"
           ELSE /\ d.handler = ChannelHandler(d.source.channel)
                /\ d.token \div CHANNEL_CNT = d.source.index
                /\ d.token % CHANNEL_CNT = d.source.channel
                /\ d.token # RESOLVER

\* C14: the token of every registered object is index * CHANNEL_CNT + channel
\* itself, not that number wrapped to the machine word, and two registered
\* objects never hold the same token.
C14_TokenFitsWord ==
    /\ \A e \in registry : e.token = e.index * CHANNEL_CNT + e.channel
    /\ \A e1, e2 \in registry : e1 # e2 => e1.token # e2.token

\* C15: the timeout of every poll is the smaller of poll_delay's result and
\* one millisecond: never more than one millisecond, and one millisecond when
\* poll_delay gives no deadline.
C15_PollTimeoutCapped ==
    h_poll.polled =>
        /\ h_poll.timeout <= 1
        /\ h_poll.timeout =
               (IF h_poll.delay.some /\ h_poll.delay.micros < 1000
                THEN h_poll.delay.micros ELSE 1000) \div 1000

(***************************************************************************)
(* wintun/mod.rs: the timers of run's loop (lines 145-147, 193-202)        *)
(***************************************************************************)
\* OPTIONS.udp_idle_duration, in seconds.
udp_idle_duration == 2

\* Line 147, in seconds.
check_duration == 10

MaxInstant == 2 * check_duration + 3

\* What one iteration of the loop can take.
Elapsed == 0..(check_duration + 1)

\* A timer that fires one step early.
TimerDueEarly(t, last, cadence) == t - last >= cadence

\* Lines 194 and 199: more than the cadence has passed since the last run.
TimerDue(t, last, cadence) == t - last > cadence

TimerInit ==
    /\ instant = 0
    /\ last_tcp_check_time = 0
    /\ last_udp_check_time = 0
    /\ h_timers = [now |-> 0, tcp_since |-> 0, udp_since |-> 0,
                   tcp_ran |-> FALSE, udp_ran |-> FALSE, iterations |-> 0]

\* Lines 193-202, at the end of an iteration that took dt.
CheckTimers(dt) ==
    LET t == instant + dt
        tcp == TimerDue(t, last_tcp_check_time, check_duration)
        udp == TimerDue(t, last_udp_check_time, udp_idle_duration)
    IN /\ t <= MaxInstant
       /\ instant' = t
       /\ last_tcp_check_time' = IF tcp THEN t ELSE last_tcp_check_time
       /\ last_udp_check_time' = IF udp THEN t ELSE last_udp_check_time
       /\ h_timers' = [now |-> t,
                       tcp_since |-> last_tcp_check_time,
                       udp_since |-> last_udp_check_time,
                       tcp_ran |-> tcp, udp_ran |-> udp,
                       iterations |-> IF h_timers.iterations < 2
                                      THEN h_timers.iterations + 1 ELSE 2]
       /\ UNCHANGED notTimer

TimerNext == \E dt \in Elapsed : CheckTimers(dt)

\* C16: in every iteration TCP's check_timeout runs exactly when more than
\* ten seconds have passed since its previous run (since the start, before
\* the first), UDP's exactly when more than udp_idle_duration has, and a run
\* sets the timer's time to now: two runs of one check are more than its
\* cadence apart, and the first iteration that ends more than a cadence after
\* the previous run does run it.
C16_ChecksOnCadence ==
    h_timers.iterations > 0 =>
        /\ h_timers.tcp_ran <=> (h_timers.now - h_timers.tcp_since > 10)
        /\ h_timers.udp_ran <=> (h_timers.now - h_timers.udp_since > udp_idle_duration)
        /\ last_tcp_check_time = IF h_timers.tcp_ran THEN h_timers.now ELSE h_timers.tcp_since
        /\ last_udp_check_time = IF h_timers.udp_ran THEN h_timers.now ELSE h_timers.udp_since
        /\ h_timers.now = instant
        /\ instant - last_tcp_check_time \in 0..10
        /\ instant - last_udp_check_time \in 0..udp_idle_duration

\* C16 witness: TCP's check ran a second time, eleven seconds after its first
\* run, in an iteration in which UDP's check did not run.
C16_Witness ==
    /\ h_timers.tcp_ran /\ ~h_timers.udp_ran
    /\ h_timers.tcp_since > 0
    /\ h_timers.now - h_timers.tcp_since = check_duration + 1

(***************************************************************************)
(* Specifications.                                                         *)
(***************************************************************************)
Init ==
    /\ TunInit /\ TlsInit /\ ProxyInit /\ UdpInit /\ PollInit /\ TimerInit
    /\ StreamInit

Next == TunNext

\* The TUN reader and the stack.
Spec == Init /\ [][Next]_vars

\* The TUN reader on bursts longer than the inbound queue.
SpecBurst == Init /\ [][BurstNext]_vars

\* The TLS server's connection table.
SpecTls == Init /\ [][TlsNext]_vars

\* The TLS server's accept.
SpecTlsAccept == Init /\ [][TlsAcceptNext]_vars

\* The TLS server's idle timeout.
SpecTlsTimeout == Init /\ [][TlsTimeoutNext]_vars

\* The TLS server's connection events.
SpecTlsEvent == Init /\ [][TlsEventNext]_vars

\* The sessions of the redirect-mode TCP proxy, whose tasks the runtime goes
\* on polling: a wait_until_stop that can return does.
SpecProxyLive ==
    /\ Init
    /\ [][ProxySessionNext]_vars
    /\ \A i \in 1..MaxFlows : WF_vars(WaitUntilStop(i))

\* The redirect-mode TCP listener and its flows.
SpecProxy == Init /\ [][ProxyNext]_vars

\* One UDP backend.
SpecUdp == Init /\ [][UdpNext]_vars

\* The UDP backends of two connections.
SpecUdpPair == Init /\ [][UdpPairNext]_vars

\* One backend's shutdown.  The socket becomes writable again and again, with
\* room for every datagram, and check_close follows the events.
SpecUdpLive ==
    /\ Init
    /\ [][UdpLiveNext]_vars
    /\ WF_vars(ReadyWritable("b1", AllSent))
    /\ WF_vars(CheckClose("b1"))

\* The bytes that pass through one UDP backend.
SpecUdpStream == Init /\ [][StreamNext]_vars

\* The poll and the event dispatch of run's loop.
SpecLoop == Init /\ [][PollNext]_vars

\* The timers of run's loop.
SpecTimers == Init /\ [][TimerNext]_vars

====
